---- MODULE Spec2Model ----
(***************************************************************************)
(* A model of src/src/cdn_manager.py: the CDNManager store (three SQLite   *)
(* tables and the sqlite_sequence table that AUTOINCREMENT keeps), its     *)
(* operations add_origin, list_origins, add_cache_rule, purge_cache,       *)
(* cdn_status and export_json, the write lock a writer holds from its      *)
(* INSERT to its commit or rollback, and the wall clock the timestamps are *)
(* read from.                                                              *)
(*                                                                         *)
(* Text values that the program orders or compares are sequences of        *)
(* numbers compared as SQLite's BINARY collation compares bytes.  A        *)
(* timestamp string is the sequence of its fixed-width fields: the time is *)
(* counted in hours, "YYYY-MM-DD" is the day number, "HH:MM:SS" the hour   *)
(* of the day, and the separator and the fraction keep their character     *)
(* codes.  An Optional value is <<>> for None/NULL and <<v>> for v.        *)
(***************************************************************************)
EXTENDS Integers, Sequences, FiniteSets, TLC

VARIABLES
  db,    \* the persisted (committed) store: the three tables and sqlite_sequence
  txn,   \* the open write transaction's view of the store, None when there is
         \* none; the process that opened it holds the database's write lock
  now,   \* the wall clock, UTC, in hours
  pc,    \* where the purge_cache call in progress stands: the statement it runs next
  call,  \* the arguments and locals of that call
  apc,   \* where the add_origin call in progress stands
  acall, \* the locals of that call
  rpc,   \* where the add_cache_rule call in progress stands
  rcall, \* the locals of that call
  epc,   \* where the export_json call in progress stands
  ecall, \* the output_path of that call
  ret,   \* what the last completed call returned or raised
  spc,   \* where the statement-by-statement cdn_status call stands
  st,    \* the locals of that call
  seen   \* history: the stores persisted since that call began

vars == <<db, txn, now, pc, call, apc, acall, rpc, rcall, epc, ecall, ret, spc, st, seen>>

\* ------------------------------------------------------------------ bounds

MaxOrigins == 2
MaxRules == 2
MaxEvents == 2
MaxClock == 26
MaxHour == 2

\* ------------------------------------------------------- program constants

DefaultTtl == 3600
HoursPerDay == 24
CharSpace == 32
CharT == 84
CharDot == 46

\* ------------------------------------------------------------------ inputs

Names == {<<97>>, <<97, 98>>, <<98>>}
Providers == {"", "fastly"}
OriginUrls == {"https://origin.example.com"}
CdnUrls == {"https://cdn.example.com"}
NotesIn == {""}
PathPatterns == {"/static/*"}
RuleTypes == {"cache"}
PurgeTypes == {"full"}
Targets == {"*"}
Actors == {"cli"}
OriginIds == {1, 9}
RuleOriginIds == {1}
CacheHeadersIn == {TRUE}
TzOffsets == {0, 1}
Micros == {0, 7}
TickSteps == {1, HoursPerDay}
DB_PATH == "~/.blackroad/cdn-manager.db"
OutputPaths == {"cdn_export.json", DB_PATH}

None == <<>>
Some(v) == <<v>>

\* ----------------------------------------------------------- text helpers

\* memcmp order of two TEXT values (BINARY collation): TRUE when a sorts
\* strictly before b.
RECURSIVE TextLess(_, _)
TextLess(a, b) ==
  IF b = <<>> THEN FALSE
  ELSE IF a = <<>> THEN TRUE
  ELSE IF Head(a) # Head(b) THEN Head(a) < Head(b)
  ELSE TextLess(Tail(a), Tail(b))

\* SQLite's CURRENT_TIMESTAMP and datetime(): UTC, "YYYY-MM-DD HH:MM:SS".
CurrentTimestamp(t) == <<t \div HoursPerDay, CharSpace, t % HoursPerDay>>

\* Fault variant: the modifier '-1 hour'.
DatetimeNowMinusOneHour(t) == CurrentTimestamp(t - 1)

\* datetime('now','-1 day')
DatetimeNowMinusOneDay(t) == CurrentTimestamp(t - HoursPerDay)

\* datetime.now().isoformat(): local time, "YYYY-MM-DDTHH:MM:SS", followed by
\* ".ffffff" when the microsecond is not 0.
IsoFormat(t, tz, us) ==
  <<(t + tz) \div HoursPerDay, CharT, (t + tz) % HoursPerDay>>
    \o (IF us = 0 THEN <<>> ELSE <<CharDot, us>>)

\* ------------------------------------------------------------------- store

\* The database file after _init_db: the tables, empty. is_database tells
\* whether the file is an SQLite database at all.
EmptyStore ==
  [cdn_origins |-> {}, cache_rules |-> {}, purge_events |-> {},
   sqlite_sequence |-> [cdn_origins |-> 0, cache_rules |-> 0, purge_events |-> 0],
   is_database |-> TRUE]

\* The database file after open(output_path, "w") and json.dump wrote over it:
\* JSON text, which holds no table and no row; every connection's first
\* statement raises DatabaseError('file is not a database').
NotADatabase == [EmptyStore EXCEPT !.is_database = FALSE]

\* The database file after open(output_path, "w") truncated it: 0 bytes, which
\* SQLite opens as an empty database; the CDNManager() of the next command
\* creates the tables in it (_init_db), and the ids start at 1 again.
TruncatedFile == EmptyStore

\* What a call that raised gives its caller.
Raised(op, arg, err, t) ==
  [op |-> op, ok |-> FALSE, arg |-> arg, val |-> <<>>, err |-> err, at |-> t]

Ids(rows) == {r.id : r \in rows}

MaxId(rows) == IF rows = {} THEN 0 ELSE CHOOSE m \in Ids(rows) : \A i \in Ids(rows) : i <= m

\* Fault variant: the largest rowid itself, not one more.
NextRowidNoIncrement(rows, s) == IF s > MaxId(rows) THEN s ELSE MaxId(rows)

\* INTEGER PRIMARY KEY AUTOINCREMENT: one more than the largest rowid the table
\* has ever held (sqlite_sequence), and than the largest it holds.
NextRowid(rows, s) == (IF s > MaxId(rows) THEN s ELSE MaxId(rows)) + 1

\* What the last completed call gave its caller: the operation, whether it
\* returned (ok) or raised (err), its argument, its value, and the time of the call.
NoRet == [op |-> "none", ok |-> TRUE, arg |-> None, val |-> None, err |-> "", at |-> 0]

\* The locals of the purge_cache call in progress; pre is the store as it was
\* persisted when the call began.
NoCall == [origin_id |-> 0, purge_type |-> "", target |-> "", triggered_by |-> "",
           ts |-> <<>>, lastrowid |-> 0, pre |-> EmptyStore]

NoAddCall == [name |-> <<>>, lastrowid |-> 0]

NoRuleCall == [origin_id |-> 0, path_pattern |-> "", ttl |-> 0, cache_headers |-> FALSE,
               rule_type |-> "", lastrowid |-> 0]

NoStatus == [origins |-> <<>>, rule_count |-> 0, purge_total |-> 0, purges_24h |-> 0]

Init ==
  /\ db = EmptyStore
  /\ txn = None
  /\ now = 0
  /\ pc = "idle"
  /\ call = NoCall
  /\ apc = "idle"
  /\ acall = NoAddCall
  /\ rpc = "idle"
  /\ rcall = NoRuleCall
  /\ epc = "idle"
  /\ ecall = ""
  /\ ret = NoRet
  /\ spc = "idle"
  /\ st = NoStatus
  /\ seen = {}

\* Fault variant: every statement committed as it runs (autocommit).
RollbackKeepsWrites(d, t) == IF t = None THEN d ELSE t[1]

\* The persisted store after the connection's context manager rolls back (an
\* exception) or the journal is rolled back (the process died): the writes of the
\* open transaction t are dropped.
Rollback(d, t) == d

\* ------------------------------------------------------------------ clock

\* The wall clock moves on by an hour or by a day; it is read in the first
\* MaxHour hours of a day, up to hour MaxClock.
Tick(d) ==
  /\ now + d <= MaxClock
  /\ (now + d) % HoursPerDay <= MaxHour
  /\ now' = now + d
  /\ UNCHANGED <<db, txn, pc, call, apc, acall, rpc, rcall, ret, spc, st, seen, epc, ecall>>

\* -------------------------------------------------------------- add_origin

OriginRow(id, name, origin_url, cdn_url, provider, cache_ttl, notes, t) ==
  [id |-> id, name |-> name, origin_url |-> origin_url, cdn_url |-> cdn_url,
   provider |-> provider, status |-> "active", cache_ttl |-> cache_ttl,
   notes |-> notes, created_at |-> CurrentTimestamp(t), last_purge |-> None]

\* Fault variant: the column without UNIQUE.
NameAlwaysFree(origins, name) == TRUE

\* name TEXT NOT NULL UNIQUE: no persisted origin has the name.
UniqueNameFree(origins, name) == \A o \in origins : o.name # name

\* _get_origin: the row with that id, or None.
_get_origin(d, id) ==
  IF \E o \in d.cdn_origins : o.id = id
  THEN Some(CHOOSE o \in d.cdn_origins : o.id = id)
  ELSE None

\* The INSERT: it takes the database's write lock and opens the transaction.
\* The INSERT of a persisted name writes nothing and raises IntegrityError,
\* the transaction staying open (and the lock held) until the context manager
\* rolls back: add_origin_rollback.  Nothing is persisted before conn.commit().
add_origin(name, origin_url, cdn_url, provider, cache_ttl, notes) ==
  /\ apc = "idle"
  /\ txn = None
  /\ IF ~db.is_database
     THEN /\ ret' = Raised("add_origin", Some(name), "DatabaseError", now)
          /\ UNCHANGED <<txn, apc, acall>>
     ELSE IF ~UniqueNameFree(db.cdn_origins, name)
     THEN /\ txn' = Some(db)
          /\ apc' = "rollback"
          /\ acall' = [name |-> name, lastrowid |-> 0]
          /\ UNCHANGED ret
     ELSE LET id == NextRowid(db.cdn_origins, db.sqlite_sequence.cdn_origins)
              row == OriginRow(id, name, origin_url, cdn_url, provider, cache_ttl, notes, now)
          IN /\ Cardinality(db.cdn_origins) < MaxOrigins
             /\ txn' = Some([db EXCEPT !.cdn_origins = @ \cup {row},
                                       !.sqlite_sequence.cdn_origins = id])
             /\ apc' = "commit"
             /\ acall' = [name |-> name, lastrowid |-> id]
             /\ UNCHANGED ret
  /\ UNCHANGED <<db, now, pc, call, rpc, rcall, spc, st, epc, ecall>>

\* The INSERT while another process holds the write lock: it waits for the
\* lock (add_origin above, once the lock is free) or, the busy timeout over,
\* raises OperationalError('database is locked').
add_origin_locked(name) ==
  /\ apc = "idle"
  /\ txn # None
  /\ ret' = Raised("add_origin", Some(name), "OperationalError", now)
  /\ UNCHANGED <<db, txn, now, pc, call, apc, acall, rpc, rcall, spc, st, epc, ecall>>

\* The context manager's rollback after the INSERT raised IntegrityError: the
\* lock is released and the exception reaches the caller.
add_origin_rollback ==
  /\ apc = "rollback"
  /\ db' = Rollback(db, txn)
  /\ txn' = None
  /\ ret' = Raised("add_origin", Some(acall.name), "IntegrityError", now)
  /\ apc' = "idle"
  /\ acall' = NoAddCall
  /\ UNCHANGED <<now, pc, call, rpc, rcall, epc, ecall, spc, st>>

\* conn.commit(): the row is persisted and the lock released.
add_origin_commit ==
  /\ apc = "commit"
  /\ db' = txn[1]
  /\ txn' = None
  /\ apc' = "read"
  /\ UNCHANGED <<now, pc, call, acall, rpc, rcall, ret, spc, st, epc, ecall>>

\* The commit raises, or the process is interrupted between the INSERT and
\* the commit: the transaction is rolled back.
add_origin_fail ==
  /\ apc = "commit"
  /\ db' = Rollback(db, txn)
  /\ txn' = None
  /\ ret' = Raised("add_origin", Some(acall.name), apc, now)
  /\ apc' = "idle"
  /\ acall' = NoAddCall
  /\ UNCHANGED <<now, pc, call, rpc, rcall, spc, st, epc, ecall>>

\* return self._get_origin(cur.lastrowid): the row as persisted now.
add_origin_return ==
  /\ apc = "read"
  /\ ret' = IF db.is_database
            THEN [op |-> "add_origin", ok |-> TRUE, arg |-> Some(acall.name),
                  val |-> _get_origin(db, acall.lastrowid), err |-> "", at |-> now]
            ELSE Raised("add_origin", Some(acall.name), "DatabaseError", now)
  /\ apc' = "idle"
  /\ acall' = NoAddCall
  /\ UNCHANGED <<db, txn, now, pc, call, rpc, rcall, spc, st, epc, ecall>>

\* ------------------------------------------------------------ list_origins

\* Python's truth value of the provider argument: None and "" are false.
Truthy(provider) == provider # None /\ provider[1] # ""

\* WHERE provider = ? is appended only when the argument is truthy.
Selected(d, provider) ==
  IF Truthy(provider)
  THEN {o \in d.cdn_origins : o.provider = provider[1]}
  ELSE d.cdn_origins

\* ORDER BY name: the rows, least name first.
RECURSIVE OrderByName(_)
OrderByName(rows) ==
  IF rows = {} THEN <<>>
  ELSE LET first == CHOOSE r \in rows : \A q \in rows \ {r} : ~TextLess(q.name, r.name)
       IN <<first>> \o OrderByName(rows \ {first})

list_origins(d, provider) == OrderByName(Selected(d, provider))

list_origins_call(provider) ==
  /\ ret' = IF db.is_database
            THEN [op |-> "list_origins", ok |-> TRUE, arg |-> provider,
                  val |-> list_origins(db, provider), err |-> "", at |-> now]
            ELSE Raised("list_origins", provider, "DatabaseError", now)
  /\ UNCHANGED <<db, txn, now, pc, call, apc, acall, rpc, rcall, spc, st, epc, ecall>>

\* ---------------------------------------------------------- add_cache_rule

BoolToInt(b) == IF b THEN 1 ELSE 0

RuleRow(id, origin_id, path_pattern, ttl, cache_headers, rule_type, t) ==
  [id |-> id, origin_id |-> origin_id, path_pattern |-> path_pattern, ttl |-> ttl,
   cache_headers |-> BoolToInt(cache_headers), rule_type |-> rule_type,
   created_at |-> CurrentTimestamp(t)]

\* The INSERT: it takes the write lock and opens the transaction.  The
\* connection never sets PRAGMA foreign_keys, so REFERENCES cdn_origins(id) is
\* not enforced: the INSERT succeeds whatever origin_id is.
add_cache_rule(origin_id, path_pattern, ttl, cache_headers, rule_type) ==
  /\ rpc = "idle"
  /\ txn = None
  /\ IF ~db.is_database
     THEN /\ ret' = Raised("add_cache_rule", Some(origin_id), "DatabaseError", now)
          /\ UNCHANGED <<txn, rpc, rcall>>
     ELSE LET id == NextRowid(db.cache_rules, db.sqlite_sequence.cache_rules)
              row == RuleRow(id, origin_id, path_pattern, ttl, cache_headers, rule_type, now)
          IN /\ Cardinality(db.cache_rules) < MaxRules
             /\ txn' = Some([db EXCEPT !.cache_rules = @ \cup {row},
                                       !.sqlite_sequence.cache_rules = id])
             /\ rpc' = "commit"
             /\ rcall' = [origin_id |-> origin_id, path_pattern |-> path_pattern, ttl |-> ttl,
                          cache_headers |-> cache_headers, rule_type |-> rule_type,
                          lastrowid |-> id]
             /\ UNCHANGED ret
  /\ UNCHANGED <<db, now, pc, call, apc, acall, spc, st, epc, ecall>>

\* The INSERT while another process holds the write lock, the busy timeout
\* over: OperationalError('database is locked').
add_cache_rule_locked(origin_id) ==
  /\ rpc = "idle"
  /\ txn # None
  /\ ret' = Raised("add_cache_rule", Some(origin_id), "OperationalError", now)
  /\ UNCHANGED <<db, txn, now, pc, call, apc, acall, rpc, rcall, spc, st, epc, ecall>>

\* conn.commit(), then the CacheRule is built from the arguments and
\* cur.lastrowid.
add_cache_rule_commit ==
  /\ rpc = "commit"
  /\ db' = txn[1]
  /\ txn' = None
  /\ ret' = [op |-> "add_cache_rule", ok |-> TRUE, arg |-> Some(rcall.origin_id),
             val |-> Some([id |-> rcall.lastrowid, origin_id |-> rcall.origin_id,
                           path_pattern |-> rcall.path_pattern, ttl |-> rcall.ttl,
                           cache_headers |-> rcall.cache_headers,
                           rule_type |-> rcall.rule_type, created_at |-> None]),
             err |-> "", at |-> now]
  /\ rpc' = "idle"
  /\ rcall' = NoRuleCall
  /\ UNCHANGED <<now, pc, call, apc, acall, spc, st, epc, ecall>>

\* The commit raises, or the process is interrupted between the INSERT and
\* the commit: the transaction is rolled back.
add_cache_rule_fail ==
  /\ rpc = "commit"
  /\ db' = Rollback(db, txn)
  /\ txn' = None
  /\ ret' = Raised("add_cache_rule", Some(rcall.origin_id), rpc, now)
  /\ rpc' = "idle"
  /\ rcall' = NoRuleCall
  /\ UNCHANGED <<now, pc, call, apc, acall, spc, st, epc, ecall>>

\* ------------------------------------------------------------- purge_cache

EventRow(id, origin_id, purge_type, target, triggered_by, t) ==
  [id |-> id, origin_id |-> origin_id, purge_type |-> purge_type, target |-> target,
   status |-> "queued", triggered_by |-> triggered_by, created_at |-> CurrentTimestamp(t)]

\* Fault variant: the UPDATE without its WHERE clause.
UpdateLastPurgeAll(origins, ts, origin_id) ==
  {[o EXCEPT !.last_purge = Some(ts)] : o \in origins}

\* UPDATE cdn_origins SET last_purge = ? WHERE id = ?
UpdateLastPurge(origins, ts, origin_id) ==
  {IF o.id = origin_id THEN [o EXCEPT !.last_purge = Some(ts)] ELSE o : o \in origins}

\* ts = datetime.now().isoformat(); the connection is opened.
purge_cache_begin(origin_id, purge_type, target, triggered_by, tz, us) ==
  /\ pc = "idle"
  /\ Cardinality(db.purge_events) < MaxEvents
  /\ call' = [origin_id |-> origin_id, purge_type |-> purge_type, target |-> target,
              triggered_by |-> triggered_by, ts |-> IsoFormat(now, tz, us), lastrowid |-> 0,
              pre |-> db]
  /\ pc' = "insert"
  /\ UNCHANGED <<db, txn, now, apc, acall, rpc, rcall, ret, spc, st, epc, ecall>>

\* INSERT INTO purge_events: takes the write lock and opens the transaction;
\* created_at is the column's DEFAULT CURRENT_TIMESTAMP, the INSERT names no
\* created_at.  When the file is no database the INSERT raises:
\* purge_cache_fail.
purge_cache_insert ==
  /\ pc = "insert"
  /\ txn = None
  /\ db.is_database
  /\ LET id == NextRowid(db.purge_events, db.sqlite_sequence.purge_events)
         row == EventRow(id, call.origin_id, call.purge_type, call.target,
                         call.triggered_by, now)
     IN /\ txn' = Some([db EXCEPT !.purge_events = @ \cup {row}, !.sqlite_sequence.purge_events = id])
        /\ call' = [call EXCEPT !.lastrowid = id]
  /\ pc' = "update"
  /\ UNCHANGED <<db, now, apc, acall, rpc, rcall, ret, spc, st, epc, ecall>>

purge_cache_update ==
  /\ pc = "update"
  /\ txn' = Some([txn[1] EXCEPT !.cdn_origins = UpdateLastPurge(@, call.ts, call.origin_id)])
  /\ pc' = "commit"
  /\ UNCHANGED <<db, now, call, apc, acall, rpc, rcall, ret, spc, st, epc, ecall>>

\* conn.commit(), then the PurgeEvent is built from the arguments and ts.
purge_cache_commit ==
  /\ pc = "commit"
  /\ db' = txn[1]
  /\ txn' = None
  /\ pc' = "idle"
  /\ ret' = [op |-> "purge_cache", ok |-> TRUE, arg |-> Some(call.origin_id),
             val |-> Some([id |-> call.lastrowid, origin_id |-> call.origin_id,
                           purge_type |-> call.purge_type, target |-> call.target,
                           status |-> "queued", triggered_by |-> call.triggered_by,
                           created_at |-> Some(call.ts)]),
             err |-> "", at |-> now]
  /\ call' = NoCall
  /\ UNCHANGED <<now, apc, acall, rpc, rcall, spc, st, epc, ecall>>

\* The INSERT while another process holds the write lock, the busy timeout
\* over: OperationalError('database is locked'); nothing was written.
purge_cache_locked ==
  /\ pc = "insert"
  /\ txn # None
  /\ pc' = "idle"
  /\ ret' = Raised("purge_cache", Some(call.origin_id), "OperationalError", now)
  /\ call' = NoCall
  /\ UNCHANGED <<db, txn, now, apc, acall, rpc, rcall, spc, st, epc, ecall>>

\* A statement raises, or the process is interrupted, before the INSERT, between
\* the INSERT and the UPDATE, or between the UPDATE and the commit.  The
\* transaction, open from the INSERT on, is rolled back.
purge_cache_fail ==
  /\ pc \in {"insert", "update", "commit"}
  /\ db' = Rollback(db, IF pc = "insert" THEN None ELSE txn)
  /\ txn' = IF pc = "insert" THEN txn ELSE None
  /\ pc' = "idle"
  /\ ret' = [op |-> "purge_cache", ok |-> FALSE, arg |-> Some(call.origin_id),
             val |-> None, err |-> pc, at |-> now]
  /\ call' = NoCall
  /\ UNCHANGED <<now, apc, acall, rpc, rcall, spc, st, epc, ecall>>

\* -------------------------------------------------------------- cdn_status

rule_count(d) == Cardinality(d.cache_rules)

purge_total(d) == Cardinality(d.purge_events)

\* SELECT COUNT(*) FROM purge_events WHERE created_at > datetime('now','-1 day')
purges_24h(d, t) ==
  Cardinality({e \in d.purge_events : TextLess(DatetimeNowMinusOneDay(t), e.created_at)})

\* Fault variant: m[k] = 1.
IncrOverwrite(m, k) == [x \in DOMAIN m \cup {k} |-> IF x = k THEN 1 ELSE m[x]]

\* m[k] = m.get(k, 0) + 1
Incr(m, k) ==
  [x \in DOMAIN m \cup {k} |-> IF x = k THEN (IF k \in DOMAIN m THEN m[k] ELSE 0) + 1 ELSE m[x]]

RECURSIVE by_provider(_, _)
by_provider(s, m) ==
  IF s = <<>> THEN m ELSE by_provider(Tail(s), Incr(m, Head(s).provider))

RECURSIVE by_status(_, _)
by_status(s, m) ==
  IF s = <<>> THEN m ELSE by_status(Tail(s), Incr(m, Head(s).status))

EmptyDict == [x \in {} |-> 0]

Summary(origins, rules, purges, recent) ==
  [total_origins |-> Len(origins), total_rules |-> rules,
   total_purges |-> purges, purges_24h |-> recent,
   by_provider |-> by_provider(origins, EmptyDict),
   by_status |-> by_status(origins, EmptyDict)]

\* The whole call with no other process writing in between.
cdn_status(d, t) ==
  Summary(list_origins(d, None), rule_count(d), purge_total(d), purges_24h(d, t))

cdn_status_call ==
  /\ ret' = IF db.is_database
            THEN [op |-> "cdn_status", ok |-> TRUE, arg |-> None,
                  val |-> Some(cdn_status(db, now)), err |-> "", at |-> now]
            ELSE Raised("cdn_status", None, "DatabaseError", now)
  /\ UNCHANGED <<db, txn, now, pc, call, apc, acall, rpc, rcall, spc, st, epc, ecall>>

\* cdn_status one statement at a time: list_origins() on its own connection,
\* then three SELECT COUNT(*) on a second one, which opens no transaction for
\* a SELECT: each statement reads the store as committed at that moment.  A
\* statement that finds the file no database raises and ends the call.
cdn_status_raise ==
  /\ ret' = Raised("cdn_status", None, "DatabaseError", now)
  /\ spc' = "idle"
  /\ st' = NoStatus

cdn_status_origins ==
  /\ spc = "idle"
  /\ IF db.is_database
     THEN /\ st' = [NoStatus EXCEPT !.origins = list_origins(db, None)]
          /\ spc' = "rules"
          /\ UNCHANGED ret
     ELSE cdn_status_raise
  /\ seen' = {db}
  /\ UNCHANGED <<db, txn, now, pc, call, apc, acall, rpc, rcall, epc, ecall>>

cdn_status_rule_count ==
  /\ spc = "rules"
  /\ IF db.is_database
     THEN /\ st' = [st EXCEPT !.rule_count = rule_count(db)]
          /\ spc' = "total"
          /\ UNCHANGED ret
     ELSE cdn_status_raise
  /\ UNCHANGED <<db, txn, now, pc, call, apc, acall, rpc, rcall, seen, epc, ecall>>

cdn_status_purge_total ==
  /\ spc = "total"
  /\ IF db.is_database
     THEN /\ st' = [st EXCEPT !.purge_total = purge_total(db)]
          /\ spc' = "recent"
          /\ UNCHANGED ret
     ELSE cdn_status_raise
  /\ UNCHANGED <<db, txn, now, pc, call, apc, acall, rpc, rcall, seen, epc, ecall>>

cdn_status_purges_24h ==
  /\ spc = "recent"
  /\ IF db.is_database
     THEN /\ st' = [st EXCEPT !.purges_24h = purges_24h(db, now)]
          /\ spc' = "return"
          /\ UNCHANGED ret
     ELSE cdn_status_raise
  /\ UNCHANGED <<db, txn, now, pc, call, apc, acall, rpc, rcall, seen, epc, ecall>>

cdn_status_return ==
  /\ spc = "return"
  /\ ret' = [op |-> "cdn_status", ok |-> TRUE, arg |-> None,
             val |-> Some(Summary(st.origins, st.rule_count, st.purge_total, st.purges_24h)),
             err |-> "", at |-> now]
  /\ spc' = "idle"
  /\ st' = NoStatus
  /\ UNCHANGED <<db, txn, now, pc, call, apc, acall, rpc, rcall, seen, epc, ecall>>

\* -------------------------------------------------------------- export_json
\* The export reads the origins, the rules and the newest events, then opens
\* output_path for writing, which truncates the file, dumps them as JSON and
\* returns output_path.  A path other than the database file leaves the store
\* alone.  The exported payload itself is not part of the state.
\*
\* The reads and open(output_path, "w").
export_json(output_path) ==
  /\ epc = "idle"
  /\ IF ~db.is_database
     THEN /\ ret' = Raised("export_json", Some(output_path), "DatabaseError", now)
          /\ UNCHANGED <<db, epc, ecall>>
     ELSE /\ db' = IF output_path = DB_PATH THEN TruncatedFile ELSE db
          /\ epc' = "dump"
          /\ ecall' = output_path
          /\ UNCHANGED ret
  /\ UNCHANGED <<txn, now, pc, call, apc, acall, rpc, rcall, spc, st>>

\* json.dump, the file is closed, return output_path: the database file as
\* output_path now holds JSON text.
export_json_dump ==
  /\ epc = "dump"
  /\ db' = IF ecall = DB_PATH THEN NotADatabase ELSE db
  /\ ret' = [op |-> "export_json", ok |-> TRUE, arg |-> Some(ecall),
             val |-> Some(ecall), err |-> "", at |-> now]
  /\ epc' = "idle"
  /\ ecall' = ""
  /\ UNCHANGED <<txn, now, pc, call, apc, acall, rpc, rcall, spc, st>>

\* The process is interrupted, or json.dump raises, after the file was opened:
\* the file stays truncated, or holds the beginning of the JSON text.
export_json_fail ==
  /\ epc = "dump"
  /\ \E d \in {db, IF ecall = DB_PATH THEN NotADatabase ELSE db} : db' = d
  /\ ret' = Raised("export_json", Some(ecall), epc, now)
  /\ epc' = "idle"
  /\ ecall' = ""
  /\ UNCHANGED <<txn, now, pc, call, apc, acall, rpc, rcall, spc, st>>

\* ----------------------------------------------------------- specifications

\* No call is in progress.
Idle == pc = "idle" /\ apc = "idle" /\ rpc = "idle" /\ epc = "idle"

\* One process, one call at a time, at one instant: nothing else runs while
\* a call is between its statements.
Next ==
  \/ /\ Idle
     /\ \E n \in Names, u \in OriginUrls, c \in CdnUrls, p \in Providers, x \in NotesIn :
          add_origin(n, u, c, p, DefaultTtl, x)
     /\ UNCHANGED seen
  \/ add_origin_rollback /\ UNCHANGED seen
  \/ add_origin_commit /\ UNCHANGED seen
  \/ add_origin_fail /\ UNCHANGED seen
  \/ add_origin_return /\ UNCHANGED seen
  \/ /\ Idle
     /\ \E p \in {None} \cup {Some(q) : q \in Providers} : list_origins_call(p)
     /\ UNCHANGED seen
  \/ /\ Idle
     /\ \E x \in RuleOriginIds, p \in PathPatterns, h \in CacheHeadersIn, r \in RuleTypes :
          add_cache_rule(x, p, DefaultTtl, h, r)
     /\ UNCHANGED seen
  \/ add_cache_rule_commit /\ UNCHANGED seen
  \/ add_cache_rule_fail /\ UNCHANGED seen
  \/ /\ Idle
     /\ \E x \in OriginIds, k \in PurgeTypes, g \in Targets, by \in Actors :
          purge_cache_begin(x, k, g, by, 0, 0)
     /\ UNCHANGED seen
  \/ purge_cache_insert /\ UNCHANGED seen
  \/ purge_cache_update /\ UNCHANGED seen
  \/ purge_cache_commit /\ UNCHANGED seen
  \/ purge_cache_fail /\ UNCHANGED seen
  \/ Idle /\ cdn_status_call /\ UNCHANGED seen
  \/ /\ Idle
     /\ \E o \in OutputPaths : export_json(o)
     /\ UNCHANGED seen
  \/ export_json_dump /\ UNCHANGED seen
  \/ export_json_fail /\ UNCHANGED seen

Spec == Init /\ [][Next]_vars

\* One process, one call at a time, while the wall clock moves: one origin,
\* purged in any time zone and at any microsecond.
NextTime ==
  \/ \E d \in TickSteps : Tick(d)
  \/ /\ Idle
     /\ \E u \in OriginUrls, c \in CdnUrls, x \in NotesIn :
          add_origin(<<97>>, u, c, "cloudflare", DefaultTtl, x)
     /\ UNCHANGED seen
  \/ add_origin_rollback /\ UNCHANGED seen
  \/ add_origin_commit /\ UNCHANGED seen
  \/ add_origin_return /\ UNCHANGED seen
  \/ /\ Idle
     /\ \E k \in PurgeTypes, g \in Targets, by \in Actors, tz \in TzOffsets, us \in Micros :
          purge_cache_begin(1, k, g, by, tz, us)
     /\ UNCHANGED seen
  \/ purge_cache_insert /\ UNCHANGED seen
  \/ purge_cache_update /\ UNCHANGED seen
  \/ purge_cache_commit /\ UNCHANGED seen
  \/ Idle /\ cdn_status_call /\ UNCHANGED seen

SpecTime == Init /\ [][NextTime]_vars

\* The stores committed since the cdn_status call in progress began.
Observe == seen' = IF spc = "idle" THEN seen ELSE seen \cup {db'}

\* Four processes on the same database file: one adds origins, one adds
\* rules, one purges, one asks for the status; every statement of one may fall
\* between two statements of another.  A writer holds the write lock from its
\* INSERT to its commit; the others' INSERTs wait for it or raise.
NextConc ==
  \/ /\ \E n \in {<<97>>, <<98>>}, u \in OriginUrls, c \in CdnUrls, x \in NotesIn :
          add_origin(n, u, c, "cloudflare", DefaultTtl, x)
     /\ Observe
  \/ (\E n \in {<<97>>, <<98>>} : add_origin_locked(n)) /\ Observe
  \/ add_origin_rollback /\ Observe
  \/ add_origin_commit /\ Observe
  \/ add_origin_return /\ Observe
  \/ /\ \E p \in PathPatterns, r \in RuleTypes : add_cache_rule(1, p, DefaultTtl, TRUE, r)
     /\ Observe
  \/ add_cache_rule_locked(1) /\ Observe
  \/ add_cache_rule_commit /\ Observe
  \/ /\ \E k \in PurgeTypes, g \in Targets, by \in Actors : purge_cache_begin(1, k, g, by, 0, 0)
     /\ Observe
  \/ purge_cache_insert /\ Observe
  \/ purge_cache_locked /\ Observe
  \/ purge_cache_update /\ Observe
  \/ purge_cache_commit /\ Observe
  \/ cdn_status_origins
  \/ cdn_status_rule_count
  \/ cdn_status_purge_total
  \/ cdn_status_purges_24h
  \/ cdn_status_return

SpecConc == Init /\ [][NextConc]_vars

\* Three processes that write to the same database file, one per kind of
\* call: any sequence of add_origin, add_cache_rule and purge_cache calls,
\* with the calls that raise, fail or are interrupted, and with every
\* interleaving of their statements.
NextWrites ==
  \/ /\ \E n \in Names, u \in OriginUrls, c \in CdnUrls, x \in NotesIn :
          add_origin(n, u, c, "cloudflare", DefaultTtl, x)
     /\ UNCHANGED seen
  \/ (\E n \in Names : add_origin_locked(n)) /\ UNCHANGED seen
  \/ add_origin_rollback /\ UNCHANGED seen
  \/ add_origin_commit /\ UNCHANGED seen
  \/ add_origin_fail /\ UNCHANGED seen
  \/ add_origin_return /\ UNCHANGED seen
  \/ /\ \E x \in RuleOriginIds, p \in PathPatterns, h \in CacheHeadersIn, r \in RuleTypes :
          add_cache_rule(x, p, DefaultTtl, h, r)
     /\ UNCHANGED seen
  \/ (\E x \in RuleOriginIds : add_cache_rule_locked(x)) /\ UNCHANGED seen
  \/ add_cache_rule_commit /\ UNCHANGED seen
  \/ add_cache_rule_fail /\ UNCHANGED seen
  \/ /\ \E x \in OriginIds, k \in PurgeTypes, g \in Targets, by \in Actors :
          purge_cache_begin(x, k, g, by, 0, 0)
     /\ UNCHANGED seen
  \/ purge_cache_insert /\ UNCHANGED seen
  \/ purge_cache_locked /\ UNCHANGED seen
  \/ purge_cache_update /\ UNCHANGED seen
  \/ purge_cache_commit /\ UNCHANGED seen
  \/ purge_cache_fail /\ UNCHANGED seen

SpecWrites == Init /\ [][NextWrites]_vars

\* ------------------------------------------------------------------ claims

OriginExists(d, id) == \E o \in d.cdn_origins : o.id = id

\* The call op has returned and no call has begun since: ret is its result
\* and db the store it left.
Returned(op) == Idle /\ ret.op = op /\ ret.ok

\* d2 is d with the event of call c inserted and origin c.origin_id, when d
\* holds it, stamped with c.ts.
AppliedBoth(d, d2, c) ==
  /\ \E e \in d2.purge_events :
       /\ e.id = c.lastrowid
       /\ e.origin_id = c.origin_id
       /\ e \notin d.purge_events
       /\ d2.purge_events = d.purge_events \cup {e}
  /\ \A o \in d.cdn_origins :
       o.id = c.origin_id =>
         \E o2 \in d2.cdn_origins : o2.id = o.id /\ o2.last_purge = Some(c.ts)

\* C1: while purge_cache is between its statements the persisted store is the
\* store as it was before the call, and every step of the call, a failure or an
\* interruption before the INSERT, between the INSERT and the UPDATE, or between
\* the UPDATE and the commit included, leaves it so, except the commit, which
\* persists the new PurgeEvent together with the new last_purge of origin X.
PurgeAllOrNothing ==
  [][pc # "idle" =>
       /\ db = call.pre
       /\ \/ db' = call.pre
          \/ /\ pc = "commit"
             /\ ret'.op = "purge_cache"
             /\ ret'.ok
             /\ AppliedBoth(call.pre, db', call)]_vars

\* A purge of a persisted origin failed between the UPDATE and the commit.
PurgeFailedBeforeCommit ==
  /\ pc = "idle"
  /\ ret.op = "purge_cache"
  /\ ~ret.ok
  /\ ret.err = "commit"
  /\ OriginExists(db, ret.arg[1])
  /\ \A o \in db.cdn_origins : o.last_purge = None
  /\ db.purge_events = {}

\* C2: after a successful purge_cache(X) on a persisted origin X, X's
\* last_purge is the created_at of the event the call created, as stored in
\* purge_events and as returned.
LastPurgeIsEventCreatedAt ==
  Returned("purge_cache") =>
    \A o \in db.cdn_origins :
      o.id = ret.arg[1] =>
        \E e \in db.purge_events :
          /\ e.id = ret.val[1].id
          /\ o.last_purge = Some(e.created_at)
          /\ o.last_purge = ret.val[1].created_at

NamesUnique(d) == \A o1, o2 \in d.cdn_origins : o1.name = o2.name => o1 = o2

\* The step is the INSERT of an add_origin call: it opened the transaction
\* (the commit or the rollback is pending) or the call raised.
AddOriginCalled ==
  /\ apc = "idle"
  /\ apc' \in {"commit", "rollback"} \/ (ret' # ret /\ ret'.op = "add_origin")

\* C3: an add_origin call with a name a persisted origin has raises the
\* uniqueness error; the INSERT, raising or not, leaves the persisted store as
\* it was, and so does the rollback; the commit of a call with a new name adds
\* one row of that name, which the call then returns; and no two persisted
\* origins share a name.
AddOriginUniqueName ==
  [][/\ AddOriginCalled =>
          LET name == IF apc' = "idle" THEN ret'.arg[1] ELSE acall'.name
          IN /\ db' = db
             /\ (\E o \in db.cdn_origins : o.name = name) => apc' = "rollback"
     /\ apc = "rollback" =>
          /\ apc' = "idle" => (~ret'.ok /\ ret'.err = "IntegrityError"
                                 /\ ret'.arg = Some(acall.name))
          /\ db' = db
     /\ (apc = "commit" /\ apc' = "read") =>
          \E o \in db'.cdn_origins :
            /\ o.name = acall.name
            /\ o.id = acall.lastrowid
            /\ \A q \in db.cdn_origins : q.name # o.name
            /\ db'.cdn_origins = db.cdn_origins \cup {o}
     /\ (apc = "commit" /\ apc' = "idle") => db' = db
     /\ (apc = "read" /\ apc' = "idle" /\ ret'.ok) =>
          /\ ret'.val # None
          /\ ret'.val[1].name = acall.name
          /\ ret'.val[1] \in db'.cdn_origins
     /\ NamesUnique(db')]_vars

\* add_origin was refused for a name already persisted.
DuplicateNameRefused ==
  /\ ret.op = "add_origin"
  /\ ~ret.ok
  /\ ret.err = "IntegrityError"
  /\ \E o \in db.cdn_origins : o.name = ret.arg[1]

IdsUnique(rows) == Cardinality(Ids(rows)) = Cardinality(rows)

Tables == {"cdn_origins", "cache_rules", "purge_events"}

\* The ids the step assigned in table t: those of rows persisted after it and
\* not before.
NewIds(t) == Ids(db'[t]) \ Ids(db[t])

\* C4: in each table no step gives up an id, so the ids of the persisted rows
\* are all the ids ever assigned; a step persists at most one new id, greater
\* than every one of them, and no two rows share an id; the only steps that
\* persist one are the commits of add_origin, add_cache_rule and purge_cache,
\* and the id a successful call returns is the one its commit persisted.  This
\* holds after any sequence of these calls, however interleaved, those that
\* raised, failed or were interrupted included.
IdsStrictlyIncrease ==
  [][/\ \A t \in Tables :
          /\ Ids(db[t]) \subseteq Ids(db'[t])
          /\ Cardinality(NewIds(t)) <= 1
          /\ \A i \in NewIds(t) : \A j \in Ids(db[t]) : j < i
          /\ IdsUnique(db'[t])
     /\ NewIds("cdn_origins") # {} <=> (apc = "commit" /\ apc' = "read")
     /\ NewIds("cache_rules") # {} <=> (rpc = "commit" /\ rpc' = "idle" /\ ret'.ok)
     /\ NewIds("purge_events") # {} <=> (pc = "commit" /\ pc' = "idle" /\ ret'.ok)
     /\ (apc = "commit" /\ apc' = "read") => NewIds("cdn_origins") = {acall.lastrowid}
     /\ (apc = "read" /\ apc' = "idle") =>
          ret'.ok /\ ret'.val # None /\ ret'.val[1].id = acall.lastrowid
     /\ (rpc = "commit" /\ rpc' = "idle" /\ ret'.ok) =>
          ret'.op = "add_cache_rule" /\ NewIds("cache_rules") = {ret'.val[1].id}
     /\ (pc = "commit" /\ pc' = "idle" /\ ret'.ok) =>
          ret'.op = "purge_cache" /\ NewIds("purge_events") = {ret'.val[1].id}]_vars

\* A second origin, a second cache rule and a second purge event were given
\* their ids, the event last.
SecondIdsAssigned ==
  /\ \A t \in Tables : Ids(db[t]) = {1, 2}
  /\ Returned("purge_cache")
  /\ ret.val[1].id = 2

\* s lists exactly the rows, each once, in ascending order of name.
SortedListOf(s, rows) ==
  /\ Len(s) = Cardinality(rows)
  /\ {s[i] : i \in 1..Len(s)} = rows
  /\ \A i, j \in 1..Len(s) : i < j => TextLess(s[i].name, s[j].name)

\* C5: list_origins(provider=p) returns, for every string p, the empty string
\* included, exactly the persisted origins whose provider is p, in ascending
\* order of name; with no filter, every persisted origin in that order.
ListOriginsFiltersExactly ==
  Returned("list_origins") =>
    SortedListOf(ret.val,
                 IF ret.arg = None THEN db.cdn_origins
                 ELSE {o \in db.cdn_origins : o.provider = ret.arg[1]})

\* C6: the summary cdn_status returns is the summary of one store that was
\* persisted between the call's start and its return, whatever other
\* processes wrote meanwhile.
StatusIsOneSnapshot ==
  (spc = "idle" /\ ret.op = "cdn_status" /\ ret.ok) =>
    \E S \in seen : ret.val[1] = cdn_status(S, ret.at)

RECURSIVE SumDict(_)
SumDict(m) ==
  IF DOMAIN m = {} THEN 0
  ELSE LET k == CHOOSE x \in DOMAIN m : TRUE
       IN m[k] + SumDict([x \in DOMAIN m \ {k} |-> m[x]])

\* C7: cdn_status returns total_origins equal to the length of list_origins()
\* and to the number of persisted origins, and the counts of by_provider and
\* those of by_status each sum to total_origins.
StatusCountsAgree ==
  Returned("cdn_status") =>
    /\ ret.val[1].total_origins = Len(list_origins(db, None))
    /\ ret.val[1].total_origins = Cardinality(db.cdn_origins)
    /\ SumDict(ret.val[1].by_provider) = ret.val[1].total_origins
    /\ SumDict(ret.val[1].by_status) = ret.val[1].total_origins
    /\ \A k \in DOMAIN ret.val[1].by_provider :
         ret.val[1].by_provider[k] = Cardinality({o \in db.cdn_origins : o.provider = k})

\* cdn_status counted two origins of one provider.
StatusCountedTwoOfOneProvider ==
  /\ Returned("cdn_status")
  /\ ret.val[1].total_origins = 2
  /\ \E k \in DOMAIN ret.val[1].by_provider : ret.val[1].by_provider[k] = 2

\* The time a "YYYY-MM-DD HH:MM:SS" text names.
ParseTimestamp(s) == s[1] * HoursPerDay + s[3]

\* C8: cdn_status called at time T returns as purges_24h the number of
\* persisted events whose created_at is later than T - 24 h and not later than
\* T: an event stamped 25 hours before T is not counted, one stamped 1 hour
\* before T is.
Purges24hCountsLastDay ==
  Returned("cdn_status") =>
    /\ ret.val[1].purges_24h =
         Cardinality({e \in db.purge_events :
                        /\ ret.at - HoursPerDay < ParseTimestamp(e.created_at)
                        /\ ParseTimestamp(e.created_at) <= ret.at})
    /\ \A e \in db.purge_events :
         ParseTimestamp(e.created_at) = ret.at - 25 => ret.val[1].purges_24h < Cardinality(db.purge_events)
    /\ (\E e \in db.purge_events : ParseTimestamp(e.created_at) = ret.at - 1) =>
         ret.val[1].purges_24h >= 1

\* cdn_status ran with one event stamped 25 hours earlier and one stamped 1 hour
\* earlier, and counted one.
StatusSawOldAndRecentPurge ==
  /\ Returned("cdn_status")
  /\ \E e \in db.purge_events : ParseTimestamp(e.created_at) = ret.at - 25
  /\ \E e \in db.purge_events : ParseTimestamp(e.created_at) = ret.at - 1
  /\ ret.val[1].purges_24h = 1
  /\ ret.val[1].total_purges = 2

\* C9: add_cache_rule and purge_cache called with an origin_id that names no
\* persisted origin raise or return nothing, and no persisted rule or event
\* references an origin that is not persisted.
MissingOriginRefused ==
  /\ (Idle /\ ret.op \in {"add_cache_rule", "purge_cache"}
        /\ ~OriginExists(db, ret.arg[1])) => (~ret.ok \/ ret.val = None)
  /\ \A r \in db.cache_rules : OriginExists(db, r.origin_id)
  /\ \A e \in db.purge_events : OriginExists(db, e.origin_id)

SameButLastPurge(o, o2) == [o2 EXCEPT !.last_purge = o.last_purge] = o

\* The step is a step of an export_json call.
ExportWrites ==
  epc # "idle" \/ epc' # "idle" \/ (ret' # ret /\ ret'.op = "export_json")

\* C10: no step of add_origin, add_cache_rule, purge_cache, list_origins or
\* cdn_status deletes or changes a rule or an event, and none changes a field
\* of an origin other than last_purge; last_purge changes only in the commit of
\* purge_cache(X), only on origin X, and that step adds no rule and no origin;
\* a step that adds a rule leaves origins and events as they were; a step that
\* adds an origin leaves every other origin, rule and event as it was;
\* list_origins and cdn_status leave the store as it was.
FrameEffects ==
  [][~ExportWrites =>
     /\ db.cache_rules \subseteq db'.cache_rules
     /\ db.purge_events \subseteq db'.purge_events
     /\ \A o \in db.cdn_origins : \E o2 \in db'.cdn_origins : SameButLastPurge(o, o2)
     /\ \A o \in db.cdn_origins :
          o \notin db'.cdn_origins =>
            /\ pc = "commit"
            /\ o.id = call.origin_id
            /\ db'.cache_rules = db.cache_rules
            /\ Cardinality(db'.cdn_origins) = Cardinality(db.cdn_origins)
            /\ \A q \in db.cdn_origins : q.id # o.id => q \in db'.cdn_origins
     /\ db'.cache_rules # db.cache_rules =>
          /\ rpc = "commit" /\ ret'.op = "add_cache_rule" /\ ret'.ok
          /\ db'.cdn_origins = db.cdn_origins
          /\ db'.purge_events = db.purge_events
     /\ Cardinality(db'.cdn_origins) # Cardinality(db.cdn_origins) =>
          /\ apc = "commit" /\ apc' = "read"
          /\ db.cdn_origins \subseteq db'.cdn_origins
          /\ db'.cache_rules = db.cache_rules
          /\ db'.purge_events = db.purge_events
     /\ db'.purge_events # db.purge_events => pc = "commit"
     /\ db'.is_database = db.is_database
     /\ (ret' # ret /\ ret'.op \in {"list_origins", "cdn_status"}) => db' = db
     /\ (apc = "read" /\ apc' = "idle") => db' = db]_vars

\* purge_cache stamped one of two persisted origins that has a rule.
PurgedOneOfTwoOrigins ==
  /\ Returned("purge_cache")
  /\ Cardinality(db.cdn_origins) = 2
  /\ db.cache_rules # {}
  /\ \E o \in db.cdn_origins : o.id = ret.arg[1] /\ o.last_purge # None
  /\ \E o \in db.cdn_origins : o.id # ret.arg[1] /\ o.last_purge = None

====
